---------------------------- MODULE Spec2Model ----------------------------
(***************************************************************************)
(* Model of netcalc (src/src/netcalc.go): the pipeline of runConsoleMode,  *)
(* parseCIDR followed by calculate, and the two byte-array helpers         *)
(* incrementIP and decrementIP.                                            *)
(*                                                                         *)
(* Strings are sequences of one-character strings.  Byte slices live in a  *)
(* heap (a sequence of buffers); a slice value is the index of its buffer, *)
(* so that two slices sharing storage are two equal indices.               *)
(* Numbers wider than 31 bits are kept as big-endian byte sequences.       *)
(***************************************************************************)
EXTENDS Integers, Sequences, FiniteSets, TLC

VARIABLES
    pc,          \* position in runConsoleMode / the helper driver
    cidr,        \* the command-line argument
    ipStr,       \* parseCIDR's first result
    bitmaskStr,  \* parseCIDR's second result
    err,         \* the error message returned ("" is nil)
    result,      \* calculate's []ResultItem (<<>> is nil)
    heap,        \* the byte buffers allocated so far
    ones,        \* calculate: ones
    netmask,     \* calculate: netmask      (buffer index, 0 is nil)
    wildcardIP,  \* calculate: wildcardIP
    network,     \* calculate: network
    broadcast,   \* calculate: broadcast
    hostmin,     \* calculate: hostmin
    hostmax,     \* calculate: hostmax
    totalHosts,  \* calculate: totalHosts, a uint64 as 8 big-endian bytes
    orig,        \* helper driver: the buffer's value before any helper ran
    ops          \* helper driver: the helpers applied so far, with the
                 \* index of the byte at which each loop stopped

vars == <<pc, cidr, ipStr, bitmaskStr, err, result, heap, ones, netmask,
          wildcardIP, network, broadcast, hostmin, hostmax, totalHosts,
          orig, ops>>

---------------------------------------------------------------------------
(* Bounds of the model *)

\* address bytes are drawn from 0..MaxLow, 255-MaxLow..255 and {10}, the
\* last byte from these and {5}
MaxLow == 0

\* the helper driver applies at most MaxOps helpers to a buffer
MaxOps == 2

---------------------------------------------------------------------------
(* Bytes and bits *)

RECURSIVE Pow2(_)
Pow2(n) == IF n = 0 THEN 1 ELSE 2 * Pow2(n - 1)

RECURSIVE BitAnd(_, _)
BitAnd(a, b) ==
    IF a = 0 \/ b = 0 THEN 0
    ELSE (a % 2) * (b % 2) + 2 * BitAnd(a \div 2, b \div 2)

RECURSIVE BitOr(_, _)
BitOr(a, b) ==
    IF a = 0 THEN b
    ELSE IF b = 0 THEN a
    ELSE (IF a % 2 = 1 \/ b % 2 = 1 THEN 1 ELSE 0)
         + 2 * BitOr(a \div 2, b \div 2)

\* ^b on a byte
BitNot(b) == 255 - b

Zeros(n) == [i \in 1..n |-> 0]

---------------------------------------------------------------------------
(* Text *)

Digits == <<"0", "1", "2", "3", "4", "5", "6", "7", "8", "9">>

HexDigits == <<"0", "1", "2", "3", "4", "5", "6", "7", "8", "9",
               "a", "b", "c", "d", "e", "f">>

DigitSet == {Digits[d] : d \in 1..10}

HexSet == {HexDigits[d] : d \in 1..16}

HexTable == [c \in HexSet |-> (CHOOSE d \in 1..16 : HexDigits[d] = c) - 1]

IsDigit(c) == c \in DigitSet

DigitVal(c) == HexTable[c]

IsHex(c) == c \in HexSet

HexVal(c) == HexTable[c]

\* s[from:] (from is a 0-based Go offset)
Drop(s, from) == SubSeq(s, from + 1, Len(s))

\* fmt.Sprintf("%d", n) for n >= 0
RECURSIVE FormatInt(_)
FormatInt(n) ==
    IF n < 10 THEN <<Digits[n + 1]>>
    ELSE FormatInt(n \div 10) \o <<Digits[(n % 10) + 1]>>

\* net.IP.String() of a 4-byte address
FormatIP(b) ==
    FormatInt(b[1]) \o <<".">> \o FormatInt(b[2]) \o <<".">>
        \o FormatInt(b[3]) \o <<".">> \o FormatInt(b[4])

\* one step of the long division of a big-endian byte sequence by 10:
\* <<quotient bytes, remainder>>
RECURSIVE DivTen(_, _, _)
DivTen(b, i, rem) ==
    IF i > Len(b) THEN <<<<>>, rem>>
    ELSE LET cur == rem * 256 + b[i]
             Put(rest) == <<<<cur \div 10>> \o rest[1], rest[2]>>
         IN  Put(DivTen(b, i + 1, cur % 10))

\* fmt.Sprintf("%d", v) for an unsigned v held as big-endian bytes
RECURSIVE FormatUint(_)
FormatUint(b) ==
    LET Put(qr) == IF qr[1] = Zeros(Len(b)) THEN <<Digits[qr[2] + 1]>>
                   ELSE FormatUint(qr[1]) \o <<Digits[qr[2] + 1]>>
    IN  Put(DivTen(b, 1, 0))

\* strings.Contains(s, "/")
ContainsSlash(s) == \E i \in 1..Len(s) : s[i] = "/"

\* bytealg.IndexByteString(s, c), 0-based, -1 when absent
RECURSIVE IndexFrom(_, _, _)
IndexFrom(s, c, i) ==
    IF i > Len(s) THEN -1
    ELSE IF s[i] = c THEN i - 1
    ELSE IndexFrom(s, c, i + 1)

IndexByte(s, c) == IndexFrom(s, c, 1)

\* strings.Split(s, "/")
RECURSIVE SplitSlash(_)
SplitSlash(s) ==
    LET At(i) == IF i < 0 THEN <<s>>
                 ELSE <<SubSeq(s, 1, i)>> \o SplitSlash(Drop(s, i + 1))
    IN  At(IndexByte(s, "/"))

\* strconv.Atoi, for the strings of fewer than 19 characters drawn here:
\* an optional sign, then decimal digits only
RECURSIVE AtoiDigits(_, _, _)
AtoiDigits(s, i, n) ==
    IF i > Len(s) THEN [ok |-> TRUE, n |-> n]
    ELSE IF ~IsDigit(s[i]) THEN [ok |-> FALSE, n |-> 0]
    ELSE AtoiDigits(s, i + 1, n * 10 + DigitVal(s[i]))

Atoi(s) ==
    IF Len(s) = 0 THEN [ok |-> FALSE, n |-> 0]
    ELSE LET signed == s[1] \in {"-", "+"}
             body   == IF signed THEN Drop(s, 1) ELSE s
             Signed(r) == IF ~r.ok THEN r
                          ELSE IF s[1] = "-" THEN [ok |-> TRUE, n |-> 0 - r.n]
                          ELSE r
         IN  IF Len(body) < 1 THEN [ok |-> FALSE, n |-> 0]
             ELSE Signed(AtoiDigits(body, 1, 0))

\* net.dtoi: the leading decimal digits of s; i is how many were read
Big == 16777215

RECURSIVE DtoiLoop(_, _, _)
DtoiLoop(s, i, n) ==
    IF i < Len(s) /\ IsDigit(s[i + 1])
    THEN LET m == n * 10 + DigitVal(s[i + 1])
         IN  IF m >= Big THEN [n |-> Big, i |-> i, ok |-> FALSE]
             ELSE DtoiLoop(s, i + 1, m)
    ELSE IF i = 0 THEN [n |-> 0, i |-> 0, ok |-> FALSE]
    ELSE [n |-> n, i |-> i, ok |-> TRUE]

Dtoi(s) == DtoiLoop(s, 0, 0)

---------------------------------------------------------------------------
(* The net package as parseCIDR and calculate use it *)

IPv4len == 4

IPv6len == 16

NoAddr == [ok |-> FALSE, is4 |-> FALSE, bytes |-> <<>>]

\* netip.parseIPv4Fields: dotted decimal, four fields of at most 255,
\* no leading zero, no empty field
RECURSIVE ParseIPv4Loop(_, _, _, _, _, _)
ParseIPv4Loop(s, i, val, pos, digLen, fields) ==
    IF i > Len(s)
    THEN IF pos < 3 THEN NoAddr
         ELSE [ok |-> TRUE, is4 |-> TRUE, bytes |-> Append(fields, val)]
    ELSE IF IsDigit(s[i])
    THEN IF digLen = 1 /\ val = 0 THEN NoAddr
         ELSE LET v == val * 10 + DigitVal(s[i])
              IN  IF v > 255 THEN NoAddr
                  ELSE ParseIPv4Loop(s, i + 1, v, pos, digLen + 1, fields)
    ELSE IF s[i] = "."
    THEN IF i = 1 \/ i = Len(s) \/ s[i - 1] = "." THEN NoAddr
         ELSE IF pos = 3 THEN NoAddr
         ELSE ParseIPv4Loop(s, i + 1, 0, pos + 1, 0, Append(fields, val))
    ELSE NoAddr

ParseIPv4(s) == ParseIPv4Loop(s, 1, 0, 0, 0, <<>>)

\* the hex number at the head of s: off is how many digits were read
RECURSIVE HexGroup(_, _, _)
HexGroup(s, off, acc) ==
    IF off < Len(s) /\ IsHex(s[off + 1])
    THEN LET a == acc * 16 + HexVal(s[off + 1])
         IN  IF off > 3 \/ a > 65535 THEN [ok |-> FALSE, off |-> off, acc |-> a]
             ELSE HexGroup(s, off + 1, a)
    ELSE [ok |-> TRUE, off |-> off, acc |-> acc]

\* the ellipsis of an IPv6 text expanded: the bytes parsed after it move to
\* the end and the gap is cleared
ExpandEllipsis(ip, ellipsis) ==
    LET i == Len(ip)
        n == IPv6len - i
    IN  [j \in 1..IPv6len |->
            IF j <= ellipsis THEN ip[j]
            ELSE IF j <= ellipsis + n THEN 0
            ELSE ip[j - n]]

\* netip.parseIPv6's loop over the colon-separated hex groups; ip holds the
\* bytes parsed so far, ellipsis the position of "::" in ip (-1: none).
\* A text with a zone or an embedded dotted quad is rejected here; no such
\* text is drawn.
RECURSIVE ParseIPv6Loop(_, _, _)
ParseIPv6Loop(s, ip, ellipsis) ==
    LET i == Len(ip)
        finish(rest, bytes, ell) ==
            IF Len(rest) # 0 THEN NoAddr
            ELSE IF Len(bytes) < IPv6len
            THEN IF ell < 0 THEN NoAddr
                 ELSE [ok |-> TRUE, is4 |-> FALSE,
                       bytes |-> ExpandEllipsis(bytes, ell)]
            ELSE IF ell >= 0 THEN NoAddr
            ELSE [ok |-> TRUE, is4 |-> FALSE, bytes |-> bytes]
    IN  IF i >= IPv6len THEN finish(s, ip, ellipsis)
        ELSE LET After(g) ==
                   IF ~g.ok \/ g.off = 0 THEN NoAddr
                   ELSE IF g.off < Len(s) /\ s[g.off + 1] = "." THEN NoAddr
                   ELSE LET ip2 == ip \o <<g.acc \div 256, g.acc % 256>>
                            s2  == Drop(s, g.off)
                        IN  IF Len(s2) = 0 THEN finish(s2, ip2, ellipsis)
                            ELSE IF s2[1] # ":" THEN NoAddr
                            ELSE IF Len(s2) = 1 THEN NoAddr
                            ELSE LET s3 == Drop(s2, 1)
                                 IN  IF s3[1] = ":"
                                     THEN IF ellipsis >= 0 THEN NoAddr
                                          ELSE IF Len(s3) = 1
                                          THEN finish(<<>>, ip2, Len(ip2))
                                          ELSE ParseIPv6Loop(Drop(s3, 1), ip2,
                                                             Len(ip2))
                                     ELSE ParseIPv6Loop(s3, ip2, ellipsis)
             IN  After(HexGroup(s, 0, 0))

ParseIPv6(s) ==
    IF Len(s) >= 2 /\ s[1] = ":" /\ s[2] = ":"
    THEN IF Len(s) = 2
         THEN [ok |-> TRUE, is4 |-> FALSE, bytes |-> Zeros(IPv6len)]
         ELSE ParseIPv6Loop(Drop(s, 2), <<>>, 0)
    ELSE ParseIPv6Loop(s, <<>>, -1)

\* netip.ParseAddr: the first '.' or ':' decides the family
RECURSIVE ParseAddrFrom(_, _)
ParseAddrFrom(s, i) ==
    IF i > Len(s) THEN NoAddr
    ELSE IF s[i] = "." THEN ParseIPv4(s)
    ELSE IF s[i] = ":" THEN ParseIPv6(s)
    ELSE IF s[i] = "%" THEN NoAddr
    ELSE ParseAddrFrom(s, i + 1)

ParseAddr(s) == ParseAddrFrom(s, 1)

V4InV6Prefix == <<0, 0, 0, 0, 0, 0, 0, 0, 0, 0, 255, 255>>

\* netip.Addr.As16
As16(a) == IF a.is4 THEN V4InV6Prefix \o a.bytes ELSE a.bytes

\* netip.Addr.BitLen
BitLen(a) == IF a.is4 THEN 32 ELSE 128

\* net.CIDRMask(ones, bits)
CIDRMask(n, bits) ==
    [i \in 1..(bits \div 8) |->
        LET left == n - 8 * (i - 1)
        IN  IF left >= 8 THEN 255
            ELSE IF left <= 0 THEN 0
            ELSE BitNot(255 \div Pow2(left))]

\* net.IP.Mask(mask): a fresh buffer, ip AND mask byte by byte
IPMask(ip, mask) ==
    LET m  == IF Len(mask) = IPv6len /\ Len(ip) = IPv4len
                 /\ SubSeq(mask, 1, 12) = [i \in 1..12 |-> 255]
              THEN SubSeq(mask, 13, 16) ELSE mask
        ip2 == IF Len(m) = IPv4len /\ Len(ip) = IPv6len
                  /\ SubSeq(ip, 1, 12) = V4InV6Prefix
               THEN SubSeq(ip, 13, 16) ELSE ip
    IN  IF Len(ip2) # Len(m) THEN <<>>
        ELSE [i \in 1..Len(ip2) |-> BitAnd(ip2[i], m[i])]

\* net.ParseCIDR(s): the address of s as 16 bytes and the IPNet{IP, Mask}
NoCIDR == [ok |-> FALSE, ip |-> <<>>, netIP |-> <<>>, netMask |-> <<>>]

\* ParseCIDR once the address text and the mask text have been read
ParseCIDRParts(a, d, maskLen) ==
    IF ~a.ok THEN NoCIDR
    ELSE IF ~d.ok \/ d.i # maskLen \/ d.n < 0 \/ d.n > BitLen(a) THEN NoCIDR
    ELSE LET Net(ip, m) ==
                 [ok |-> TRUE, ip |-> ip, netIP |-> IPMask(ip, m), netMask |-> m]
         IN  Net(As16(a), CIDRMask(d.n, BitLen(a)))

ParseCIDRAt(s, i) ==
    IF i < 0 THEN NoCIDR
    ELSE ParseCIDRParts(ParseAddr(SubSeq(s, 1, i)), Dtoi(Drop(s, i + 1)),
                        Len(s) - (i + 1))

ParseCIDR(s) == ParseCIDRAt(s, IndexByte(s, "/"))

\* net.IP.To4 on a byte sequence: the 4-byte form, or <<>> for nil
To4(ip) ==
    IF Len(ip) = IPv4len THEN ip
    ELSE IF Len(ip) = IPv6len /\ SubSeq(ip, 1, 12) = V4InV6Prefix
    THEN SubSeq(ip, 13, 16)
    ELSE <<>>

\* the leading one-bits of a byte, and what is left after them
RECURSIVE LeadingOnes(_)
LeadingOnes(v) ==
    IF v >= 128 THEN LET Count(r) == [n |-> r.n + 1, rest |-> r.rest]
                     IN  Count(LeadingOnes((v * 2) % 256))
    ELSE [n |-> 0, rest |-> v]

\* net.IPMask.Size, first result: the number of leading ones of a
\* contiguous mask (0 when the mask is not contiguous)
RECURSIVE MaskSizeLoop(_, _, _)
MaskSizeLoop(mask, i, n) ==
    IF i > Len(mask) THEN n
    ELSE IF mask[i] = 255 THEN MaskSizeLoop(mask, i + 1, n + 8)
    ELSE LET Rest(lo) ==
                 IF lo.rest # 0 THEN 0
                 ELSE IF \E j \in (i + 1)..Len(mask) : mask[j] # 0 THEN 0
                 ELSE n + lo.n
         IN  Rest(LeadingOnes(mask[i]))

MaskSize(mask) == MaskSizeLoop(mask, 1, 0)

---------------------------------------------------------------------------
(* uint64 values, as 8 big-endian bytes *)

\* uint64(n) for an int n of magnitude below 2^31
RECURSIVE SubBytes(_, _, _, _)
SubBytes(a, b, i, borrow) ==
    IF i < 1 THEN a
    ELSE LET v == a[i] - b[i] - borrow
         IN  SubBytes([a EXCEPT ![i] = v % 256], b, i - 1,
                      IF v < 0 THEN 1 ELSE 0)

NatBytes(n, width) ==
    [i \in 1..width |->
        IF width - i >= 4 THEN 0 ELSE (n \div Pow2(8 * (width - i))) % 256]

ToUint(n, width) ==
    IF n >= 0 THEN NatBytes(n, width)
    ELSE SubBytes(Zeros(width), NatBytes(0 - n, width), width, 0)

\* 1 << k in an unsigned type of the given width in bytes
Shl1(k, width) ==
    [i \in 1..width |->
        IF k < 8 * width /\ width - i = k \div 8 THEN Pow2(k % 8) ELSE 0]

---------------------------------------------------------------------------
(* netcalc.go *)

\* incrementIP's loop from byte i down
RECURSIVE IncLoop(_, _)
IncLoop(b, i) ==
    IF i < 1 THEN b
    ELSE LET v == (b[i] + 1) % 256
         IN  IF v # 0 THEN [b EXCEPT ![i] = v]
             ELSE IncLoop([b EXCEPT ![i] = v], i - 1)

\* decrementIP's loop from byte i down
RECURSIVE DecLoop(_, _)
DecLoop(b, i) ==
    IF i < 1 THEN b
    ELSE LET v == (b[i] - 1) % 256
         IN  IF v # 255 THEN [b EXCEPT ![i] = v]
             ELSE DecLoop([b EXCEPT ![i] = v], i - 1)

\* incrementIP without the carry: only the last byte is incremented
incrementIPNoCarry(h, ip) ==
    [h EXCEPT ![ip] =
        [h[ip] EXCEPT ![Len(h[ip])] = (h[ip][Len(h[ip])] + 1) % 256]]

\* incrementIP(ip): the heap after the call on the buffer ip
incrementIP(h, ip) == [h EXCEPT ![ip] = IncLoop(h[ip], Len(h[ip]))]

\* decrementIP(ip)
decrementIP(h, ip) == [h EXCEPT ![ip] = DecLoop(h[ip], Len(h[ip]))]

\* calculateTotalHosts with the shift done in 32 bits: 1 << 32 wraps to 0
calculateTotalHosts32(bitmask) ==
    IF bitmask >= 31 THEN ToUint(32 - bitmask + 1, 8)
    ELSE SubBytes(Zeros(4) \o Shl1(32 - bitmask, 4), ToUint(2, 8), 8, 0)

\* calculateTotalHosts leaving out only one of network and broadcast
calculateTotalHostsOffByOne(bitmask) ==
    IF bitmask >= 31 THEN ToUint(32 - bitmask + 1, 8)
    ELSE SubBytes(Shl1(32 - bitmask, 8), ToUint(1, 8), 8, 0)

\* calculateTotalHosts(bitmask): the untyped 1 of uint64(1<<n) is a uint64
calculateTotalHosts(bitmask) ==
    IF bitmask >= 31 THEN ToUint(32 - bitmask + 1, 8)
    ELSE SubBytes(Shl1(32 - bitmask, 8), ToUint(2, 8), 8, 0)

\* parseCIDR without its net.ParseCIDR check
parseCIDRNoCheck(s) ==
    IF ~ContainsSlash(s) THEN <<<<>>, <<>>, "invalid CIDR format">>
    ELSE LET Pair(parts) == <<parts[1], parts[2], "">>
         IN  Pair(SplitSlash(s))

\* parseCIDR(cidr): <<parts[0], parts[1], error>>
parseCIDR(s) ==
    IF ~ContainsSlash(s) THEN <<<<>>, <<>>, "invalid CIDR format">>
    ELSE IF ~ParseCIDR(s).ok THEN <<<<>>, <<>>, "invalid CIDR">>
    ELSE LET Pair(parts) == <<parts[1], parts[2], "">>
         IN  Pair(SplitSlash(s))

\* calculate's checks with the address family tested first
calculateErrFamilyFirst(ip, bm) ==
    LET Reparse(c) == IF ~c.ok THEN "invalid IP address" ELSE ""
        Range(bitmask) ==
            IF ~bitmask.ok \/ bitmask.n < 0 \/ bitmask.n > 32
            THEN "invalid bitmask"
            ELSE Reparse(ParseCIDR(ip \o <<"/">> \o FormatInt(bitmask.n)))
        Family(a) ==
            IF a.ok /\ ~a.is4 THEN "IPv6 is not supported"
            ELSE Range(Atoi(bm))
    IN  Family(ParseAddr(ip))

\* calculate's three checks: the error returned, "" when all pass
calculateErr(ip, bm) ==
    LET Family(c) ==
            IF ~c.ok THEN "invalid IP address"
            ELSE IF To4(c.netIP) = <<>> THEN "IPv6 is not supported"
            ELSE ""
        Range(bitmask) ==
            IF ~bitmask.ok \/ bitmask.n < 0 \/ bitmask.n > 32
            THEN "invalid bitmask"
            ELSE Family(ParseCIDR(ip \o <<"/">> \o FormatInt(bitmask.n)))
    IN  Range(Atoi(bm))

\* the IPNet calculate works on once its checks have passed
calculateNet(ip, bm) == ParseCIDR(ip \o <<"/">> \o FormatInt(Atoi(bm).n))

\* wildcard as a copy of the mask, the complement left out
wildcardOfCopy(mask) == [i \in 1..Len(mask) |-> mask[i]]

\* wildcard: a fresh buffer, the complement of the mask byte by byte
wildcardOf(mask) == [i \in 1..Len(mask) |-> BitNot(mask[i])]

\* broadcast with |= mask in place of |= ^mask
broadcastOfMaskBits(net, mask) ==
    [i \in 1..Len(net) |->
        IF i <= 4 THEN BitOr(net[i], mask[i]) ELSE net[i]]

\* broadcast: a fresh copy of network, then |= ^mask on its four bytes
broadcastOf(net, mask) ==
    [i \in 1..Len(net) |->
        IF i <= 4 THEN BitOr(net[i], BitNot(mask[i])) ELSE net[i]]

\* the switch without its case ones == 31
hostRangeNo31(h, n, net, bc) ==
    IF n = 32 THEN [heap |-> h, hostmin |-> net, hostmax |-> net]
    ELSE LET hm == Len(h) + 1
             hx == Len(h) + 2
             Max(h2) == decrementIP(Append(h2, h2[bc]), hx)
             Min(h1) == Max(incrementIP(h1, hm))
         IN  [heap |-> Min(Append(h, h[net])), hostmin |-> hm, hostmax |-> hx]

\* the switch with its default case working on network and broadcast
\* themselves, no copy made
hostRangeInPlace(h, n, net, bc) ==
    IF n = 32 THEN [heap |-> h, hostmin |-> net, hostmax |-> net]
    ELSE IF n = 31 THEN [heap |-> h, hostmin |-> net, hostmax |-> bc]
    ELSE [heap |-> decrementIP(incrementIP(h, net), bc),
          hostmin |-> net, hostmax |-> bc]

\* the switch on ones: the heap after it and the two slices it sets
hostRange(h, n, net, bc) ==
    IF n = 32 THEN [heap |-> h, hostmin |-> net, hostmax |-> net]
    ELSE IF n = 31 THEN [heap |-> h, hostmin |-> net, hostmax |-> bc]
    ELSE LET hm == Len(h) + 1
             hx == Len(h) + 2
             Max(h2) == decrementIP(Append(h2, h2[bc]), hx)
             Min(h1) == Max(incrementIP(h1, hm))
         IN  [heap |-> Min(Append(h, h[net])), hostmin |-> hm, hostmax |-> hx]

\* the []ResultItem calculate returns
resultItems(ip, n, h, nm, wc, net, bc, hmin, hmax, total) ==
    << [Name |-> "Address",   Value |-> ip],
       [Name |-> "Bitmask",   Value |-> FormatInt(n)],
       [Name |-> "Netmask",   Value |-> FormatIP(h[nm])],
       [Name |-> "Wildcard",  Value |-> FormatIP(h[wc])],
       [Name |-> "Network",   Value |-> FormatIP(h[net])],
       [Name |-> "Broadcast", Value |-> FormatIP(h[bc])],
       [Name |-> "Hostmin",   Value |-> FormatIP(h[hmin])],
       [Name |-> "Hostmax",   Value |-> FormatIP(h[hmax])],
       [Name |-> "Hosts",     Value |-> FormatUint(total)] >>

---------------------------------------------------------------------------
(* Inputs *)

SampleBytes == (0..MaxLow) \cup ((255 - MaxLow)..255) \cup {10}

SampleIPs ==
    {<<a, b, c, d>> : a, b, c \in SampleBytes, d \in SampleBytes \cup {5}}

\* every sample address with every prefix length of IPv4
ValidInputs ==
    {FormatIP(a) \o <<"/">> \o FormatInt(p) : a \in SampleIPs, p \in 0..32}

TenFive == <<"1", "0", ".", "0", ".", "0", ".", "5">>

\* texts after the slash that are not a prefix length of IPv4
OddPrefixes ==
    { <<"3", "3">>, <<"4", "0">>, <<"1", "2", "8">>, <<"1", "2", "9">>,
      <<>>, <<"x">>, <<"+", "8">>, <<"-", "1">>, <<"0", "2", "4">>,
      <<"8", "/", "1">>, <<"2", "4", " ">> }

\* texts before the slash that are not an address
OddAddrs ==
    { <<>>, <<"1", "0", ".", "0", ".", "0">>,
      <<"1", "0", ".", "0", ".", "0", ".", "2", "5", "6">>,
      <<"1", "0", ".", "0", ".", "0", ".", "0", "5">>,
      <<"1", "0", ".", ".", "0", ".", "5">>,
      <<"1", "0", ".", "0", ".", "0", ".", "5", ".", "1">>,
      <<"a", "b", "c">>, <<"1", "0">> }

V6Addrs ==
    { <<":", ":", "1">>, <<":", ":">>,
      <<"2", "0", "0", "1", ":", "d", "b", "8", ":", ":">>,
      <<":", ":", "f", "f", "f", "f", ":", "a", "0", "0", ":", "5">>,
      <<"f", "f", "f", "f", ":", "f", "f", "f", "f", ":", ":", "1">>,
      <<"1", ":", "2", ":", "3", ":", "4", ":", "5", ":", "6", ":", "7",
        ":", "8">> }

OddV6Addrs ==
    { <<"f", "e", "8", "0", ":", ":", "1", ":", ":", "2">>,
      <<"1", ":", "2", ":", "3">>,
      <<"1", "2", "3", "4", "5", ":", ":">>,
      <<"1", ":", "2", ":", "3", ":", "4", ":", "5", ":", "6", ":", "7",
        ":", "8", ":", ":">>,
      <<":", ":", "1", ":">> }

V6Prefixes ==
    { <<"0">>, <<"2", "4">>, <<"3", "2">>, <<"3", "3">>, <<"6", "4">>,
      <<"1", "2", "8">>, <<"1", "2", "9">> }

OtherInputs ==
    {TenFive, <<>>, <<":", ":", "1">>}
    \cup {TenFive \o <<"/">> \o p : p \in OddPrefixes}
    \cup {a \o <<"/">> \o <<"8">> : a \in OddAddrs \cup OddV6Addrs}
    \cup {a \o <<"/">> \o p : a \in V6Addrs, p \in V6Prefixes \cup OddPrefixes}

Inputs == ValidInputs \cup OtherInputs

---------------------------------------------------------------------------
(* runConsoleMode: parseCIDR, then calculate *)

NoLocals ==
    /\ heap = <<>>
    /\ ones = 0
    /\ netmask = 0
    /\ wildcardIP = 0
    /\ network = 0
    /\ broadcast = 0
    /\ hostmin = 0
    /\ hostmax = 0
    /\ totalHosts = Zeros(8)

Init ==
    /\ pc = "start"
    /\ cidr \in Inputs
    /\ ipStr = <<>>
    /\ bitmaskStr = <<>>
    /\ err = ""
    /\ result = <<>>
    /\ NoLocals
    /\ orig = <<>>
    /\ ops = <<>>

\* ipStr, bitmaskStr, err := parseCIDR(cidr); log.Fatal on an error
ParseStep ==
    /\ pc = "start"
    /\ \E r \in {parseCIDR(cidr)} :
           /\ ipStr' = r[1]
           /\ bitmaskStr' = r[2]
           /\ err' = r[3]
           /\ pc' = IF r[3] = "" THEN "parsed" ELSE "failed"
    /\ UNCHANGED <<cidr, result, heap, ones, netmask, wildcardIP, network,
                   broadcast, hostmin, hostmax, totalHosts, orig, ops>>

\* result, err := calculate(ipStr, bitmaskStr), one of its checks failing
CalculateFail ==
    /\ pc = "parsed"
    /\ \E e \in {calculateErr(ipStr, bitmaskStr)} :
           /\ e # ""
           /\ err' = e
    /\ result' = <<>>
    /\ pc' = "failed"
    /\ UNCHANGED <<cidr, ipStr, bitmaskStr, heap, ones, netmask, wildcardIP,
                   network, broadcast, hostmin, hostmax, totalHosts, orig, ops>>

\* result, err := calculate(ipStr, bitmaskStr), all checks passing.
\* Buffers in allocation order: ipNet.IP, ipNet.Mask, wildcard, broadcast,
\* then hostmin and hostmax when the switch allocates them.
CalculateOk ==
    /\ pc = "parsed"
    /\ calculateErr(ipStr, bitmaskStr) = ""
    /\ \E ipNet \in {calculateNet(ipStr, bitmaskStr)} :
       \E n \in {MaskSize(ipNet.netMask)} :
       \E nm \in {2}, wc \in {3}, net \in {1}, bc \in {4} :
       \E hr \in {hostRange(<<ipNet.netIP, ipNet.netMask,
                               wildcardOf(ipNet.netMask),
                               broadcastOf(ipNet.netIP, ipNet.netMask)>>,
                             n, net, bc)} :
       \E total \in {calculateTotalHosts(n)} :
           /\ heap' = hr.heap
           /\ ones' = n
           /\ netmask' = nm
           /\ wildcardIP' = wc
           /\ network' = net
           /\ broadcast' = bc
           /\ hostmin' = hr.hostmin
           /\ hostmax' = hr.hostmax
           /\ totalHosts' = total
           /\ result' = resultItems(ipStr, n, hr.heap, nm, wc, net, bc,
                                    hr.hostmin, hr.hostmax, total)
    /\ err' = ""
    /\ pc' = "done"
    /\ UNCHANGED <<cidr, ipStr, bitmaskStr, orig, ops>>

Next == ParseStep \/ CalculateFail \/ CalculateOk

Spec == Init /\ [][Next]_vars

---------------------------------------------------------------------------
(* The helpers on their own: incrementIP and decrementIP applied to a     *)
(* buffer, in any order, at most MaxOps times                              *)

InitHelpers ==
    /\ pc = "helpers"
    /\ cidr = <<>>
    /\ ipStr = <<>>
    /\ bitmaskStr = <<>>
    /\ err = ""
    /\ result = <<>>
    /\ \E b \in SampleIPs : heap = <<b>> /\ orig = b
    /\ ones = 0
    /\ netmask = 0
    /\ wildcardIP = 0
    /\ network = 0
    /\ broadcast = 0
    /\ hostmin = 0
    /\ hostmax = 0
    /\ totalHosts = Zeros(8)
    /\ ops = <<>>

IncrementStep ==
    /\ pc = "helpers"
    /\ Len(ops) < MaxOps
    /\ heap' = incrementIP(heap, 1)
    /\ ops' = Append(ops, "inc")
    /\ UNCHANGED <<pc, cidr, ipStr, bitmaskStr, err, result, ones, netmask,
                   wildcardIP, network, broadcast, hostmin, hostmax,
                   totalHosts, orig>>

DecrementStep ==
    /\ pc = "helpers"
    /\ Len(ops) < MaxOps
    /\ heap' = decrementIP(heap, 1)
    /\ ops' = Append(ops, "dec")
    /\ UNCHANGED <<pc, cidr, ipStr, bitmaskStr, err, result, ones, netmask,
                   wildcardIP, network, broadcast, hostmin, hostmax,
                   totalHosts, orig>>

NextHelpers == IncrementStep \/ DecrementStep

SpecHelpers == InitHelpers /\ [][NextHelpers]_vars

---------------------------------------------------------------------------
(* Vocabulary of the properties *)

\* bit i of a byte sequence, counted from the most significant bit (0..)
BitWeights == <<128, 64, 32, 16, 8, 4, 2, 1>>

Bit(b, i) == (b[(i \div 8) + 1] \div BitWeights[(i % 8) + 1]) % 2

\* a 4-byte big-endian value as two 16-bit limbs <<high, low>>
Limbs(b) == <<b[1] * 256 + b[2], b[3] * 256 + b[4]>>

\* l + d modulo 2^32, for a limb pair l and a small integer d
Plus(l, d) ==
    LET lo == l[2] + d
    IN  <<(l[1] + (IF lo >= 0 THEN lo \div 65536
                   ELSE 0 - ((65535 - lo) \div 65536))) % 65536,
          lo % 65536>>

\* a - b modulo 2^32 on limb pairs
Minus(a, b) ==
    <<(a[1] - b[1] - (IF a[2] < b[2] THEN 1 ELSE 0)) % 65536,
      (a[2] - b[2]) % 65536>>

\* a <= b as unsigned 32-bit integers
Le(a, b) == a[1] < b[1] \/ (a[1] = b[1] /\ a[2] <= b[2])

\* the address and the prefix length the input text denotes
InputAddr == ParseAddr(ipStr).bytes

InputPrefix == Atoi(bitmaskStr).n

Finished == pc \in {"done", "failed"}

TenFiveSlash(p) == TenFive \o <<"/">> \o FormatInt(p)

---------------------------------------------------------------------------
(* C1: for every IPv4 address A and prefix p accepted by calculate, bit by *)
(* bit: network = A AND mask, network AND wildcard = 0, and                *)
(* network OR wildcard = broadcast; network has every host bit 0 and       *)
(* broadcast every host bit 1.                                             *)
C1_NetworkAndBroadcastBits ==
    pc = "done" =>
        LET Holds(A, p, net, bc, wc, mask) ==
                \A i \in 0..31 :
                    /\ Bit(net, i) = Bit(A, i) * Bit(mask, i)
                    /\ Bit(net, i) * Bit(wc, i) = 0
                    /\ Bit(bc, i) = (IF Bit(net, i) + Bit(wc, i) > 0
                                     THEN 1 ELSE 0)
                    /\ Bit(net, i) = (IF i < p THEN Bit(A, i) ELSE 0)
                    /\ Bit(bc, i) = (IF i < p THEN Bit(A, i) ELSE 1)
        IN  Holds(InputAddr, InputPrefix, heap[network], heap[broadcast],
                  heap[wildcardIP], heap[netmask])

C1_Witness ==
    /\ pc = "done"
    /\ cidr = TenFiveSlash(30)
    /\ heap[network] = <<10, 0, 0, 4>>
    /\ heap[broadcast] = <<10, 0, 0, 7>>
    /\ heap[wildcardIP] = <<0, 0, 0, 3>>

(* C2: Hosts is 2^(32-p) - 2 for p in 0..30, 2 for p = 31, 1 for p = 32;   *)
(* for p = 0 it is 4294967294, the 2^32 intermediate not wrapping.         *)
C2_HostCount ==
    pc = "done" =>
        LET Holds(p, total, text) ==
                /\ SubSeq(total, 1, 4) = Zeros(4)
                /\ p = 32 => Limbs(SubSeq(total, 5, 8)) = <<0, 1>>
                /\ p = 31 => Limbs(SubSeq(total, 5, 8)) = <<0, 2>>
                /\ p \in 17..30 =>
                       Limbs(SubSeq(total, 5, 8)) = <<0, Pow2(32 - p) - 2>>
                /\ p \in 0..16 =>
                       Limbs(SubSeq(total, 5, 8)) = <<Pow2(16 - p) - 1, 65534>>
                /\ p \in 1..30 => text = FormatInt(2 * (Pow2(31 - p) - 1))
                /\ p = 0 => text = <<"4", "2", "9", "4", "9", "6", "7", "2",
                                     "9", "4">>
                /\ p = 31 => text = <<"2">>
                /\ p = 32 => text = <<"1">>
        IN  Holds(InputPrefix, totalHosts, result[9].Value)

C2_Witness ==
    /\ pc = "done"
    /\ InputPrefix = 0
    /\ totalHosts = <<0, 0, 0, 0, 255, 255, 255, 254>>
    /\ result[9].Value = <<"4", "2", "9", "4", "9", "6", "7", "2", "9", "4">>

(* C3: the host range by three cases: p = 32 gives hostmin = hostmax =     *)
(* network = the input address unchanged; p = 31 gives hostmin = network   *)
(* and hostmax = broadcast; p in 0..30 gives hostmin = network + 1 and     *)
(* hostmax = broadcast - 1 as 32-bit big-endian integers.                  *)
C3_HostRange ==
    pc = "done" =>
        LET Holds(A, p, net, bc, hmin, hmax) ==
                /\ p = 32 => /\ hmin = A /\ hmax = A /\ net = A
                             /\ ParseAddr(result[5].Value).bytes = A
                             /\ ParseAddr(result[7].Value).bytes = A
                             /\ ParseAddr(result[8].Value).bytes = A
                /\ p = 31 => hmin = net /\ hmax = bc
                /\ p \in 0..30 => /\ Limbs(hmin) = Plus(Limbs(net), 1)
                                  /\ Limbs(hmax) = Plus(Limbs(bc), -1)
                /\ result[7].Value = FormatIP(hmin)
                /\ result[8].Value = FormatIP(hmax)
        IN  Holds(InputAddr, InputPrefix, heap[network], heap[broadcast],
                  heap[hostmin], heap[hostmax])

C3_Witness ==
    /\ pc = "done"
    /\ cidr = TenFiveSlash(30)
    /\ result[7].Value = TenFive
    /\ result[8].Value = <<"1", "0", ".", "0", ".", "0", ".", "6">>

(* C4: Netmask is the left-aligned contiguous mask whose bit i is 1        *)
(* exactly when i < p; its count of one-bits and the reported Bitmask both *)
(* equal the input prefix p; Wildcard is its bitwise complement.           *)
C4_NetmaskBits ==
    pc = "done" =>
        LET Count(m) == Cardinality({i \in 0..31 : Bit(m, i) = 1})
            Holds(p, m, wc) ==
                /\ Len(m) = 4
                /\ \A i \in 0..31 : (Bit(m, i) = 1) <=> (i < p)
                /\ Count(m) = p
                /\ ones = p
                /\ result[2].Value = FormatInt(p)
                /\ \A i \in 0..31 : Bit(wc, i) = 1 - Bit(m, i)
                /\ ParseAddr(result[3].Value).bytes = m
                /\ ParseAddr(result[4].Value).bytes = wc
        IN  Holds(InputPrefix, heap[netmask], heap[wildcardIP])

C4_Witness ==
    /\ pc = "done"
    /\ InputPrefix = 20
    /\ result[2].Value = <<"2", "0">>
    /\ heap[netmask] = <<255, 255, 240, 0>>
    /\ heap[wildcardIP] = <<0, 0, 15, 255>>

\* the input is a syntactically valid IPv6 CIDR
IsV6CIDR(s) ==
    LET Is(c) == c.ok /\ Len(c.netMask) = IPv6len
    IN  Is(ParseCIDR(s))

(* C5: every syntactically valid IPv6 CIDR input fails with                *)
(* "IPv6 is not supported" and with no other error.                        *)
C5_IPv6Unsupported ==
    (Finished /\ IsV6CIDR(cidr)) =>
        pc = "failed" /\ err = "IPv6 is not supported"

\* the input is addr/prefix with a valid IPv4 address and an integer
\* prefix outside 0..32
IsV4WithPrefixOutOfRange(s) ==
    LET Is(parts) ==
            /\ Len(parts) = 2
            /\ ParseAddr(parts[1]).ok
            /\ ParseAddr(parts[1]).is4
            /\ Atoi(parts[2]).ok
            /\ Atoi(parts[2]).n \notin 0..32
    IN  Is(SplitSlash(s))

FirstFailure(s) ==
    LET Parts(parts) ==
            LET Prefix(bm) ==
                    IF ~bm.ok \/ bm.n \notin 0..32 THEN "invalid bitmask"
                    ELSE IF ~ParseCIDR(parts[1] \o <<"/">> \o FormatInt(bm.n)).ok
                    THEN "invalid IP address"
                    ELSE IF ~ParseAddr(parts[1]).is4
                    THEN "IPv6 is not supported"
                    ELSE ""
            IN  Prefix(Atoi(parts[2]))
    IN  IF \A i \in 1..Len(s) : s[i] # "/" THEN "invalid CIDR format"
        ELSE IF ~ParseCIDR(s).ok THEN "invalid CIDR"
        ELSE Parts(SplitSlash(s))

(* C7: the five checks are applied in order; the error returned is that of *)
(* the first check that fails, with no result items; the nine-item result  *)
(* is returned only when all five pass.                                    *)
C7_FirstFailureWins ==
    Finished =>
        LET Holds(e) ==
                /\ err = e
                /\ e # "" => pc = "failed" /\ result = <<>> /\ NoLocals
                /\ e = "" => pc = "done" /\ Len(result) = 9
                /\ Len(result) \in {0, 9}
        IN  Holds(FirstFailure(cidr))

C7_Witness ==
    /\ pc = "failed"
    /\ cidr = <<":", ":", "1", "/", "6", "4">>
    /\ err = "invalid bitmask"
    /\ result = <<>>

(* C8 as stated: network, broadcast, hostmin and hostmax are four pairwise *)
(* distinct buffers for every prefix.                                      *)
C8_FourDistinctBuffers ==
    pc = "done" => Cardinality({network, broadcast, hostmin, hostmax}) = 4

(* C8 amended: network and broadcast are always distinct buffers; for p in *)
(* 0..30 the four are pairwise distinct; for p = 31 hostmin is network's   *)
(* buffer and hostmax is broadcast's; for p = 32 hostmin and hostmax are   *)
(* both network's buffer.                                                  *)
C8_BuffersByPrefix ==
    pc = "done" =>
        /\ network # broadcast
        /\ {network, broadcast, hostmin, hostmax} \subseteq 1..Len(heap)
        /\ ones \in 0..30 =>
               Cardinality({network, broadcast, hostmin, hostmax}) = 4
        /\ ones = 31 => hostmin = network /\ hostmax = broadcast
        /\ ones = 32 => hostmin = network /\ hostmax = network

C8_Witness ==
    /\ pc = "done"
    /\ ones = 31
    /\ hostmin = network
    /\ hostmax = broadcast
    /\ Cardinality({network, broadcast, hostmin, hostmax}) = 2

\* how many times op occurs in the sequence s
CountOp(s, op) == Cardinality({i \in 1..Len(s) : s[i] = op})

\* new is old after a carry (wrap = 255, to = 0, d = 1) or a borrow
\* (wrap = 0, to = 255, d = -1) that stops at the first byte, from the
\* least significant, that does not wrap
StopsAtFirstNonWrapping(old, new, wrap, to, d) ==
    LET free == {k \in 1..4 : old[k] # wrap}
        stop == IF free = {} THEN 0
                ELSE CHOOSE k \in free : \A j \in free : j <= k
    IN  \A j \in 1..4 :
            new[j] = IF j < stop THEN old[j]
                     ELSE IF j = stop THEN old[j] + d
                     ELSE to

(* C9: incrementIP changes v to (v + 1) mod 2^32 and decrementIP to        *)
(* (v - 1) mod 2^32; the carry or borrow stops at the first byte that does *)
(* not wrap and leaves the more significant bytes unchanged; decrementIP   *)
(* after incrementIP restores v.                                           *)
C9_IncrementDecrement ==
    pc = "helpers" =>
        /\ Limbs(heap[1]) =
               Plus(Limbs(orig), CountOp(ops, "inc") - CountOp(ops, "dec"))
        /\ ops = <<"inc">> => StopsAtFirstNonWrapping(orig, heap[1], 255, 0, 1)
        /\ ops = <<"dec">> => StopsAtFirstNonWrapping(orig, heap[1], 0, 255, -1)
        /\ ops = <<"inc", "dec">> => heap[1] = orig

C9_Witness ==
    /\ pc = "helpers"
    /\ ops = <<"inc">>
    /\ orig = <<0, 0, 255, 255>>
    /\ heap[1] = <<0, 1, 0, 0>>

(* C10: network <= hostmin <= hostmax <= broadcast as unsigned 32-bit      *)
(* integers; Hosts = hostmax - hostmin + 1; for p in 0..30 hostmin and     *)
(* hostmax differ from network and broadcast only in the last byte.        *)
C10_RangeOrderAndSize ==
    pc = "done" =>
        LET Holds(p, net, bc, hmin, hmax) ==
                /\ Le(Limbs(net), Limbs(hmin))
                /\ Le(Limbs(hmin), Limbs(hmax))
                /\ Le(Limbs(hmax), Limbs(bc))
                /\ SubSeq(totalHosts, 1, 4) = Zeros(4)
                /\ Minus(Limbs(hmax), Limbs(hmin)) # <<65535, 65535>>
                /\ Limbs(SubSeq(totalHosts, 5, 8)) =
                       Plus(Minus(Limbs(hmax), Limbs(hmin)), 1)
                /\ p \in 0..30 =>
                       /\ SubSeq(hmin, 1, 3) = SubSeq(net, 1, 3)
                       /\ SubSeq(hmax, 1, 3) = SubSeq(bc, 1, 3)
                       /\ hmin[4] = net[4] + 1
                       /\ hmax[4] = bc[4] - 1
        IN  Holds(InputPrefix, heap[network], heap[broadcast],
                  heap[hostmin], heap[hostmax])

C10_Witness ==
    /\ pc = "done"
    /\ InputPrefix = 0
    /\ heap[hostmin] = <<0, 0, 0, 1>>
    /\ heap[hostmax] = <<255, 255, 255, 254>>
    /\ totalHosts = <<0, 0, 0, 0, 255, 255, 255, 254>>

===========================================================================
